---- MODULE Spec2Model ----
(***************************************************************************)
(* A model of the myratree orchestration core: the Manager's worker       *)
(* scheduler (spawnWorker / launchWorker / drainWorkerQueue / shutdown),   *)
(* the Worker supervisor (start, 'close' and 'error' handlers,             *)
(* evaluateResult), the issue tracker's status updates, the Manager's     *)
(* turn loop with its repeated-tool-call guard, the serialization of       *)
(* chat() calls, the approval gate of executeTool, and the LlmRouter       *)
(* (selectEndpoint, complete, stream, drainQueue, checkAllHealth).         *)
(*                                                                         *)
(* Node runs the program on one thread: the code between two awaits runs   *)
(* atomically, so every action below is one such run-to-next-await piece.  *)
(***************************************************************************)
EXTENDS Integers, Sequences, FiniteSets, TLC

\* ------------------------------------------------------------- bounds
NumIssues == 3
NumEndpoints == 2
MaxCap == 1
MaxLaunch == 3
MaxEnqueue == 2
MaxTools == 4
MaxFaults == 1
MaxOut == 4
MaxGateTools == 3
MaxChat == 4
MaxMsgs == 7
MaxReq == 3
MaxWeight == 3
MaxEpCap == 2
MaxSelections == 12

Issues == 1..NumIssues
\* The issues the tool calls of a run name: reprioritize, merge_issue and
\* delete_issue are each explored for one issue, spawn_worker for all.
ReprioritizeIssues == {2}
MergeIssues == {1}
DeleteIssues == {3}
Endpoints == 1..NumEndpoints
Launches == 1..MaxLaunch
Requests == 1..MaxReq
ChatCalls == 1..MaxChat

Priorities == {"high", "medium", "low"}
IssueStatuses == {"open", "in_progress", "review", "blocked", "done"}
Terminal == {"completed", "failed", "blocked"}

VARIABLES
    \* --- issue store (IssueTracker) and worktrees on disk
    issueStatus,      \* issue id -> status, "none" when the issue file is gone
    issuePriority,    \* issue id -> priority
    wtExists,         \* issue id -> the worktree directory exists
    \* --- Manager
    workers,          \* Manager.workers: issue id -> Worker instance (0: no entry)
    workerEndpoints,  \* Manager.workerEndpoints: issue id -> endpoint (0: no entry)
    workerQueue,      \* Manager.workerQueue: sequence of QueuedWorker
    maxConcurrent,    \* config.worker.maxConcurrent
    now,              \* clock read by `new Date()` at enqueue
    toolBusy,         \* an executeTool call is awaiting its launchWorker
    shutdownDone,     \* shutdown() has run
    nTools,           \* tool calls executed so far
    nFaults,          \* faults injected so far (git, start, spawn, kill, health)
    \* --- launchWorker calls and the Worker instances they create
    L,                \* launch number -> launch / Worker record
    nLaunch,          \* launchWorker calls made so far
    \* --- LlmRouter
    healthy,          \* endpoint -> healthy flag
    slots,            \* endpoint -> worker slots reserved
    \* --- Worker.evaluateResult applied to one captured output
    evOut, evCode, evStatus, evMessage,
    \* --- Manager.processChat
    yoloMode,         \* config.manager.yoloMode
    turnPc,           \* "loop" while processChat runs its loop, else "idle"
    iterations,       \* processChat's local counter
    lastToolSig,      \* Manager._lastToolSig
    repeatCount,      \* Manager._repeatCount
    reply,            \* the tool calls of the last reply
    runLen, runSig,   \* the batch executed last in this turn and how often in a row
    turnError,        \* the error event that ended the last turn
    nTurns,           \* turns started so far
    \* --- Manager.chat
    chatBusy,         \* Manager.chatBusy
    pendingMessages,  \* Manager.pendingMessages: the queued chat() arguments
    messages,         \* Manager.messages: [turn, kind] of each message appended
    activeTurns,      \* chat() call -> where its processChat stands and how it ended
    nChat,            \* chat() calls made so far
    \* --- Manager.executeTool's approval gate
    confirmCallback,  \* Manager.confirmCallback is set (not null)
    asked,            \* the call last put to confirmCallback; pending while awaited
    answer,           \* how the last confirmCallback promise settled
    toolResult,       \* what the last executeTool call returned
    lastRun,          \* the tool handler that ran last and whether it was approved
    commits,          \* git commits made by git_commit
    \* --- LlmRouter
    weight,           \* endpoint -> config.weight
    epMaxConcurrent,  \* endpoint -> config.maxConcurrent
    currentRequests,  \* endpoint -> currentRequests
    weightCounter,    \* endpoint -> weightCounter
    queue,            \* LlmRouter.queue: the requests waiting, in order
    calls,            \* request -> the complete() / stream() call made for it
    nReq,             \* requests made so far
    probe,            \* endpoint -> state of its healthCheck in the running sweep
    selections,       \* the endpoints selectEndpoint returned, in order
    cycleCount,       \* endpoint -> times selected in the last full cycle (0: none yet)
    \* --- Manager.initialize
    prevStatus,       \* issue id -> status found on disk by initialize
    recoveryInfo,     \* the issues Manager._recoveryInfo lists
    initState,        \* "new", or how initialize's orphan check ended
    \* --- IssueTracker
    assignedIds,      \* the ids create() has returned, in order
    \* --- canTransition
    transFrom,        \* argument from
    transTo,          \* argument to
    transOk,          \* "none", or the boolean returned as "yes" / "no"
    \* --- detectConflicts
    issueText,        \* issue id -> the path matches of its description, in order
    issueSpecs,       \* issue id -> its spec files
    runningWorkers,   \* the issues whose Worker has status running
    conflicts,        \* issue id -> the call of detectConflicts and its result
    \* --- the tool loop of processChat for one response
    toolUseBlocks,    \* the tool_use blocks of the response, in order
    nextBlock,        \* index of the block the for loop takes next
    inExecuteTool,    \* indices of the blocks whose executeTool call is pending
    toolResults,      \* the local array toolResults
    toolResultMsgs,   \* the tool-result messages pushed for the response
    loopPc            \* "idle", "loop", "pushed", "raised"

schedVars == <<issueStatus, issuePriority, wtExists, workers, workerEndpoints,
               workerQueue, maxConcurrent, now, toolBusy, shutdownDone, nTools,
               nFaults, L, nLaunch, healthy, slots>>
evalVars == <<evOut, evCode, evStatus, evMessage>>
turnVars == <<yoloMode, turnPc, iterations, lastToolSig, repeatCount, reply,
              runLen, runSig, turnError, nTurns>>
chatVars == <<chatBusy, pendingMessages, messages, activeTurns, nChat>>
gateVars == <<confirmCallback, asked, answer, toolResult, lastRun, commits>>
routerVars == <<weight, epMaxConcurrent, currentRequests, weightCounter, queue,
                calls, nReq, probe, selections, cycleCount>>
recoverVars == <<prevStatus, recoveryInfo, initState>>
trackerVars == <<assignedIds>>
lifecycleVars == <<transFrom, transTo, transOk>>
conflictVars == <<issueText, issueSpecs, runningWorkers, conflicts>>
batchVars == <<toolUseBlocks, nextBlock, inExecuteTool, toolResults, toolResultMsgs,
               loopPc>>
laterVars == <<trackerVars, lifecycleVars, conflictVars, batchVars>>
auxVars == <<recoverVars, laterVars>>
vars == <<schedVars, evalVars, turnVars, chatVars, gateVars, routerVars, auxVars>>

\* ------------------------------------------------- Worker.evaluateResult
\* Captured stdout is a sequence of tokens: "DONE" is the sentinel
\* ITHAVEBEENDONE, "BLK" the directive STATUS: BLOCKED, "sp" a blank, "nl" a
\* line break, "a" and "b" any other character.
Tokens == {"DONE", "BLK", "sp", "nl", "a", "b"}
Space == {"sp", "nl"}

RECURSIVE SeqsUpTo(_)
SeqsUpTo(n) ==
    IF n = 0 THEN {<<>>}
    ELSE LET S == SeqsUpTo(n - 1)
         IN  S \cup {Append(s, t) : s \in {x \in S : Len(x) = n - 1}, t \in Tokens}

Outputs == SeqsUpTo(MaxOut)
\* The code 'close' reports for a subprocess that could not be spawned.
SpawnFailedCode == -2
ExitCodes == {SpawnFailedCode, 0, 1}

\* String.prototype.includes
Includes(out, tok) == \E i \in 1..Len(out) : out[i] = tok

\* The run of `.` characters from position p: up to the next line break.
RECURSIVE LineFrom(_, _)
LineFrom(out, p) ==
    IF p > Len(out) \/ out[p] = "nl" THEN <<>>
    ELSE <<out[p]>> \o LineFrom(out, p + 1)

\* Number of white-space tokens from position p on.
RECURSIVE SpaceRun(_, _)
SpaceRun(out, p) ==
    IF p > Len(out) \/ out[p] \notin Space THEN 0
    ELSE 1 + SpaceRun(out, p + 1)

\* /STATUS: BLOCKED\s*(.+)/ tried at the directive at position i: \s* is
\* greedy and gives white space back until (.+) finds a character to match.
\* The result is the set of numbers of white-space tokens \s* may keep.
SkipChoices(out, i) ==
    {s \in 0..SpaceRun(out, i + 1) : LineFrom(out, i + 1 + s) # <<>>}

Max(S) == CHOOSE x \in S : \A y \in S : y <= x
Min(S) == CHOOSE x \in S : \A y \in S : x <= y

MatchAt(out, i) == LineFrom(out, i + 1 + Max(SkipChoices(out, i)))

\* output.match(/STATUS: BLOCKED\s*(.+)/)?.[1] ?? 'unknown reason'
BlockMatch(out) ==
    LET at == {i \in 1..Len(out) : out[i] = "BLK" /\ SkipChoices(out, i) # {}}
    IN  IF at = {} THEN <<"unknown reason">> ELSE MatchAt(out, Min(at))

EvaluateStatusDirectiveFirst(out, code) ==
    IF Includes(out, "BLK") THEN "blocked"
    ELSE IF Includes(out, "DONE") THEN "completed"
    ELSE IF code = 0 THEN "completed"
    ELSE "failed"

\* The status evaluateResult sets.
EvaluateStatus(out, code) ==
    IF Includes(out, "DONE") THEN "completed"
    ELSE IF Includes(out, "BLK") THEN "blocked"
    ELSE IF code = 0 THEN "completed"
    ELSE "failed"

\* What the message passed to onFinished says: the kind of message and, for
\* a blocked worker, the reason.
EvaluateMessage(out, code) ==
    IF Includes(out, "DONE") THEN <<"completed successfully">>
    ELSE IF Includes(out, "BLK") THEN <<"blocked">> \o BlockMatch(out)
    ELSE IF code = 0 THEN <<"exited without signaling completion">>
    ELSE <<"failed">>


\* ------------------------------------------------ issue store, lifecycle
VALID_TRANSITIONS_NoReopen ==
    [open        |-> {"in_progress", "blocked"},
     in_progress |-> {"review", "blocked", "open"},
     review      |-> {"done", "in_progress", "open"},
     done        |-> {},
     blocked     |-> {"open", "in_progress"}]

VALID_TRANSITIONS ==
    [open        |-> {"in_progress", "blocked"},
     in_progress |-> {"review", "blocked", "open"},
     review      |-> {"done", "in_progress", "open"},
     done        |-> {"open"},
     blocked     |-> {"open", "in_progress"}]

canTransition(from, to) ==
    from \in DOMAIN VALID_TRANSITIONS /\ to \in VALID_TRANSITIONS[from]

\* IssueTracker.updateStatus -> update: rewrites the record of an existing
\* issue with the new status, whatever the old one was; null for a missing one.
updateStatus(ist, i, status) ==
    IF ist[i] = "none" THEN ist ELSE [ist EXCEPT ![i] = status]

\* ------------------------------------------------------------- router
\* The first healthy endpoint in registration order: health.find(e => e.healthy)
HealthyEndpoints == {e \in Endpoints : healthy[e]}

reserveWorkerSlot(sl, e) == [sl EXCEPT ![e] = @ + 1]

releaseWorkerSlot(sl, e) == [sl EXCEPT ![e] = IF @ > 0 THEN @ - 1 ELSE 0]

\* ------------------------------------------------------ worker scheduler
PRIORITY_ORDER == [high |-> 0, medium |-> 1, low |-> 2]

\* workerQueue.sort((a, b) => PRIORITY_ORDER[a.priority] - PRIORITY_ORDER[b.priority])
\* Array.prototype.sort is stable: entries of one priority keep their order.
SortQueue(q) ==
    SelectSeq(q, LAMBDA x : x.priority = "high")
        \o SelectSeq(q, LAMBDA x : x.priority = "medium")
        \o SelectSeq(q, LAMBDA x : x.priority = "low")

InQueue(q, i) == \E n \in 1..Len(q) : q[n].issueId = i

NoLaunch ==
    [issue |-> 0, ctx |-> "none", phase |-> "unused", fail |-> "none",
     status |-> "idle", proc |-> "none", err |-> "none", killed |-> FALSE,
     ep |-> 0, releases |-> 0]

\* Worker.state.process is set: the subprocess was started and neither
\* handler has dropped the handle.
hasProc(w) == w.proc = "alive" /\ w.err = "none"

\* Manager.getRunningWorkerCount: the entries of the workers map whose Worker
\* is running.
getRunningWorkerCount(Lx, wk) ==
    Cardinality({i \in Issues : wk[i] # 0 /\ Lx[wk[i]].status = "running"})

\* launchWorker up to its first await: createWorktree tests the worktree
\* directory synchronously, then awaits git (reuse: git log; else: git
\* branch, git worktree add, git log).
BeginLaunch(i, c, wt) ==
    [NoLaunch EXCEPT !.issue = i, !.ctx = c,
                     !.phase = IF wt[i] THEN "reusing" ELSE "creating"]

RECURSIVE SkipMissing(_, _)
SkipMissing(q, ist) ==
    IF q # <<>> /\ ist[Head(q).issueId] = "none"
    THEN SkipMissing(Tail(q), ist)
    ELSE q

\* drainWorkerQueue up to its next await: while an entry is queued and the
\* running count is below the cap, shift the head; skip it when its issue is
\* gone, else call launchWorker for it and await the call.
drainWorkerQueue(q, Lx, wk, ist, wt, n) ==
    IF getRunningWorkerCount(Lx, wk) >= maxConcurrent
    THEN [q |-> q, L |-> Lx, n |-> n]
    ELSE LET q1 == SkipMissing(q, ist)
         IN  IF q1 = <<>>
             THEN [q |-> q1, L |-> Lx, n |-> n]
             ELSE [q |-> Tail(q1),
                   L |-> IF n < MaxLaunch
                         THEN [Lx EXCEPT ![n + 1] = BeginLaunch(Head(q1).issueId, "drain", wt)]
                         ELSE Lx,
                   n |-> n + 1]

\* The caller of launchWorker k resumes once the call has returned: a tool
\* call returns its result, drainWorkerQueue goes round its loop again.
Resume(k, Lx, wk, ist, wt) ==
    LET r == IF L[k].ctx = "drain"
             THEN drainWorkerQueue(workerQueue, Lx, wk, ist, wt, nLaunch)
             ELSE [q |-> workerQueue, L |-> Lx, n |-> nLaunch]
    IN  /\ r.n <= MaxLaunch
        /\ workerQueue' = r.q
        /\ L' = r.L
        /\ nLaunch' = r.n
        /\ toolBusy' = IF L[k].ctx = "tool" THEN FALSE ELSE toolBusy
        /\ workers' = wk
        /\ issueStatus' = ist
        /\ wtExists' = wt

\* A fault of the environment: a git command or a subprocess start that
\* fails, an 'error' event, an endpoint changing health. Runs are explored
\* with at most MaxFaults of them.
Fault == nFaults < MaxFaults /\ nFaults' = nFaults + 1

\* processChat executes the tool calls of a turn one after the other: a tool
\* starts only when the previous one has returned.
ToolCall ==
    /\ ~toolBusy /\ ~shutdownDone
    /\ nTools < MaxTools
    /\ nTools' = nTools + 1
    /\ UNCHANGED <<nFaults, maxConcurrent, shutdownDone, healthy>>

NotFound == "Issue not found."
AlreadyRunning == "Worker is already running."
AlreadyQueued == "Issue is already in the worker queue."

\* this.workers.has(issueId) && worker.getState().status === 'running'
WorkerRunning(i) == workers[i] # 0 /\ L[workers[i]].status = "running"

NeverRunningOrQueued(i) == FALSE

\* The two tests of spawnWorker that reject an issue at work already.
RunningOrQueued(i) == WorkerRunning(i) \/ InQueue(workerQueue, i)

\* What spawnWorker returns before any await, "handler" when it goes on to
\* queue or launch the issue.
spawnWorkerAnswer(i) ==
    IF issueStatus[i] = "none" THEN NotFound
    ELSE IF WorkerRunning(i) THEN AlreadyRunning
    ELSE IF InQueue(workerQueue, i) THEN AlreadyQueued
    ELSE "handler"

\* spawn_worker tool -> Manager.spawnWorker(issueId)
SpawnWorker(i) ==
    /\ ToolCall
    /\ IF issueStatus[i] = "none" \/ RunningOrQueued(i)
       THEN UNCHANGED <<issueStatus, issuePriority, wtExists, workers,
                        workerEndpoints, workerQueue, now, toolBusy, L, nLaunch,
                        slots>>                        \* rejected
       ELSE IF getRunningWorkerCount(L, workers) >= maxConcurrent
       THEN /\ now < MaxEnqueue
            /\ workerQueue' = SortQueue(Append(workerQueue,
                   [issueId |-> i, priority |-> issuePriority[i], queuedAt |-> now + 1]))
            /\ now' = now + 1
            /\ UNCHANGED <<issueStatus, issuePriority, wtExists, workers,
                           workerEndpoints, toolBusy, L, nLaunch, slots>>
       ELSE /\ nLaunch < MaxLaunch
            /\ L' = [L EXCEPT ![nLaunch + 1] = BeginLaunch(i, "tool", wtExists)]
            /\ nLaunch' = nLaunch + 1
            /\ toolBusy' = TRUE
            /\ UNCHANGED <<issueStatus, issuePriority, wtExists, workers,
                           workerEndpoints, workerQueue, now, slots>>
    /\ UNCHANGED <<evalVars, auxVars, turnVars,
                   chatVars, routerVars>>

\* createWorktree of launch k reaches `git worktree add`: it fails when the
\* directory exists by now or when git fails, and the rejection is caught by
\* launchWorker ("Failed to spawn worker"); else the worktree exists.
GitWorktreeAdd(k, ok) ==
    /\ L[k].phase = "creating"
    /\ IF ok THEN UNCHANGED nFaults ELSE Fault
    /\ LET i == L[k].issue
       IN  IF ok /\ ~wtExists[i]
           THEN /\ L' = [L EXCEPT ![k].phase = "logging"]
                /\ wtExists' = [wtExists EXCEPT ![i] = TRUE]
                /\ UNCHANGED <<issueStatus, workers, workerQueue, nLaunch, toolBusy>>
           ELSE Resume(k, [L EXCEPT ![k].phase = "failed", ![k].fail = "git"],
                       workers, issueStatus, wtExists)
    /\ UNCHANGED <<issuePriority, workerEndpoints, maxConcurrent, now,
                   shutdownDone, nTools, healthy, slots, evalVars, auxVars, turnVars,
                   chatVars, gateVars, routerVars>>

\* createWorktree of launch k returns (or its last git call rejects) and
\* launchWorker runs on to its end: updateStatus, endpoint choice, new Worker,
\* workers.set, onComplete, reserveWorkerSlot, workerEndpoints.set,
\* worker.start (which sets status 'running' after writing the prompt).
LaunchResume(k, outcome) ==
    /\ L[k].phase \in {"logging", "reusing"}
    /\ outcome \in {"ok", "git", "start"}
    /\ IF outcome = "ok" THEN UNCHANGED nFaults ELSE Fault
    /\ LET i == L[k].issue
           ist1 == updateStatus(issueStatus, i, "in_progress")
       IN  IF outcome = "git"
           THEN /\ Resume(k, [L EXCEPT ![k].phase = "failed", ![k].fail = "git"],
                          workers, issueStatus, wtExists)
                /\ UNCHANGED <<workerEndpoints, slots>>
           ELSE IF HealthyEndpoints = {}
           THEN /\ Resume(k, [L EXCEPT ![k].phase = "failed", ![k].fail = "endpoint"],
                          workers, ist1, wtExists)
                /\ UNCHANGED <<workerEndpoints, slots>>
           ELSE LET e == Min(HealthyEndpoints)
                    started == [L[k] EXCEPT !.phase = "started", !.ep = e,
                                            !.status = "running", !.proc = "alive"]
                    thrown == [L[k] EXCEPT !.phase = "failed", !.fail = "start", !.ep = e]
                IN  /\ slots' = reserveWorkerSlot(slots, e)
                    /\ workerEndpoints' = [workerEndpoints EXCEPT ![i] = e]
                    /\ Resume(k, [L EXCEPT ![k] = IF outcome = "ok" THEN started ELSE thrown],
                              [workers EXCEPT ![i] = k], ist1, wtExists)
    /\ UNCHANGED <<issuePriority, maxConcurrent, now, shutdownDone, nTools,
                   healthy, evalVars, auxVars, turnVars,
                   chatVars, gateVars, routerVars>>

\* proc.on('error'): the subprocess could not be spawned ("spawn"), or a
\* kill() of it failed ("kill") and it runs on. Sets status 'failed' and
\* drops the process handle; onFinished is not called.
ProcError(k, cause) ==
    /\ L[k].proc = "alive" /\ L[k].err = "none"
    /\ \/ cause = "spawn" /\ ~L[k].killed
       \/ cause = "kill" /\ L[k].killed
    /\ Fault
    /\ L' = [L EXCEPT ![k].status = "failed", ![k].err = cause]
    /\ UNCHANGED <<issueStatus, issuePriority, wtExists, workers, workerEndpoints,
                   workerQueue, maxConcurrent, now, toolBusy, shutdownDone,
                   nTools, nLaunch, healthy, slots, evalVars, auxVars, turnVars,
                   chatVars, gateVars, routerVars>>

\* A message of Manager.messages: the turn that appended it and its kind.
Msg(m, kind) == [turn |-> m, kind |-> kind]

\* The chat() calls are numbered in the order they are made. Each message of
\* Manager.messages is recorded with the call whose processChat appended it
\* and its kind: "user", "assistant" (a reply without tool use), "tool_use"
\* (a reply asking for tools) or "tool_result".
NeverQueues(busy) == FALSE

\* if (this.chatBusy) { this.pendingMessages.push(userMessage); return; }
MustQueue(busy) == busy

\* chat(m) up to its first await: queue the message, or set chatBusy and run
\* processChat up to its request to the router (the user message is pushed).
ChatCall(st, m, from) ==
    IF MustQueue(st.busy)
    THEN [st EXCEPT !.pend = Append(@, [id |-> m, from |-> from])]
    ELSE [st EXCEPT !.busy = TRUE,
                    !.msgs = Append(@, Msg(m, "user")),
                    !.act = [@ EXCEPT ![m] = [pc |-> "llm", end |-> "none"]]]

ChatState ==
    [busy |-> chatBusy, pend |-> pendingMessages, msgs |-> messages,
     act |-> activeTurns]

SetChatState(st) ==
    /\ chatBusy' = st.busy
    /\ pendingMessages' = st.pend
    /\ messages' = st.msgs
    /\ activeTurns' = st.act

\* proc.on('close'): exitCode is stored, evaluateResult classifies the
\* captured output and calls onFinished, the callback launchWorker
\* registered: release the endpoint slot bound to the issue, drain the queue,
\* and handleWorkerResult, which calls chat() with the notification that
\* names the status.
\* A subprocess that could not be spawned closes with no output and
\* SpawnFailedCode.
ProcClose(k, out, code) ==
    /\ L[k].proc = "alive"
    /\ LET i == L[k].issue
           e == workerEndpoints[i]
           spawnFailed == L[k].err = "spawn"
           L1 == [L EXCEPT ![k].status =
                               IF spawnFailed THEN EvaluateStatus(<<>>, SpawnFailedCode)
                               ELSE EvaluateStatus(out, code),
                           ![k].proc = "closed",
                           ![k].releases = IF e # 0 THEN @ + 1 ELSE @]
           r == drainWorkerQueue(workerQueue, L1, workers, issueStatus, wtExists, nLaunch)
       IN  /\ r.n <= MaxLaunch
           /\ slots' = IF e # 0 THEN releaseWorkerSlot(slots, e) ELSE slots
           /\ workerEndpoints' = [workerEndpoints EXCEPT ![i] = 0]
           /\ workerQueue' = r.q
           /\ L' = r.L
           /\ nLaunch' = r.n
    /\ nChat < MaxChat
    /\ nChat' = nChat + 1
    /\ SetChatState(ChatCall(ChatState, nChat + 1, "worker"))
    /\ UNCHANGED <<issueStatus, issuePriority, wtExists, workers, maxConcurrent,
                   now, toolBusy, shutdownDone, nTools, nFaults, healthy, evalVars, auxVars,
                   turnVars, gateVars, routerVars>>

\* reprioritize tool
Reprioritize(i, p) ==
    /\ ToolCall
    /\ issueStatus[i] # "none"
    /\ issuePriority' = [issuePriority EXCEPT ![i] = p]
    /\ workerQueue' = IF InQueue(workerQueue, i)
                      THEN SortQueue([n \in 1..Len(workerQueue) |->
                               IF workerQueue[n].issueId = i
                               THEN [workerQueue[n] EXCEPT !.priority = p]
                               ELSE workerQueue[n]])
                      ELSE workerQueue
    /\ UNCHANGED <<issueStatus, wtExists, workers, workerEndpoints, now, toolBusy,
                   L, nLaunch, slots, evalVars, auxVars, turnVars,
                   chatVars, routerVars>>

\* What the git calls of merge_issue do: mergeWorktree reports a failure;
\* or it reports success and removeWorktree removes the worktree; or it
\* reports success and `git worktree remove` raises.
MergeOutcomes == {"merge_failed", "merged", "remove_failed"}

\* merge_issue tool: mergeWorktree succeeds only when the issue's branch
\* exists (it is created and deleted with the worktree); on success the
\* status is set to done, the worktree removed and the workers entry
\* deleted. removeWorktree runs `git worktree remove` for a directory that
\* exists and does not catch its error: the tool then raises with the
\* status set and the workers entry kept.
MergeIssue(i, outcome) ==
    /\ ToolCall
    /\ issueStatus[i] # "none"
    /\ outcome # "merge_failed" => wtExists[i]
    /\ CASE outcome = "merged" ->
              /\ issueStatus' = updateStatus(issueStatus, i, "done")
              /\ wtExists' = [wtExists EXCEPT ![i] = FALSE]
              /\ workers' = [workers EXCEPT ![i] = 0]
         [] outcome = "remove_failed" ->
              /\ issueStatus' = updateStatus(issueStatus, i, "done")
              /\ UNCHANGED <<wtExists, workers>>
         [] OTHER -> UNCHANGED <<issueStatus, wtExists, workers>>
    /\ UNCHANGED <<issuePriority, workerEndpoints, workerQueue, now, toolBusy, L,
                   nLaunch, slots, evalVars, auxVars, turnVars,
                   chatVars, routerVars>>

\* delete_issue tool: the worktree is removed, the workers entry deleted and
\* the issue file unlinked. (The awaits inside merge_issue and delete_issue
\* are git calls on the tool's own issue; the tool is taken as one step.)
DeleteIssue(i) ==
    /\ ToolCall
    /\ issueStatus[i] # "none"
    /\ wtExists' = [wtExists EXCEPT ![i] = FALSE]
    /\ workers' = [workers EXCEPT ![i] = 0]
    /\ issueStatus' = [issueStatus EXCEPT ![i] = "none"]
    /\ UNCHANGED <<issuePriority, workerEndpoints, workerQueue, now, toolBusy, L,
                   nLaunch, slots, evalVars, auxVars, turnVars,
                   chatVars, routerVars>>

\* Manager.shutdown: kill every Worker of the map, release the slot bound to
\* its issue, clear workerEndpoints.
shutdown ==
    /\ ~shutdownDone
    /\ L' = [k \in Launches |->
               IF L[k].issue # 0 /\ workers[L[k].issue] = k
               THEN [L[k] EXCEPT !.killed = @ \/ hasProc(L[k]),
                                 !.releases = IF workerEndpoints[L[k].issue] # 0
                                              THEN @ + 1 ELSE @]
               ELSE L[k]]
    /\ slots' = [e \in Endpoints |->
                   LET n == Cardinality({i \in Issues :
                                           workers[i] # 0 /\ workerEndpoints[i] = e})
                   IN  IF slots[e] > n THEN slots[e] - n ELSE 0]
    /\ workerEndpoints' = [i \in Issues |-> 0]
    /\ shutdownDone' = TRUE
    /\ UNCHANGED <<issueStatus, issuePriority, wtExists, workers, workerQueue,
                   maxConcurrent, now, toolBusy, nTools, nFaults, nLaunch, healthy,
                   evalVars, auxVars, turnVars,
                   chatVars, gateVars, routerVars>>

\* LlmRouter.checkAllHealth or a failed call changes an endpoint's flag.
HealthChange(e) ==
    /\ Fault
    /\ healthy' = [healthy EXCEPT ![e] = ~@]
    /\ UNCHANGED <<issueStatus, issuePriority, wtExists, workers, workerEndpoints,
                   workerQueue, maxConcurrent, now, toolBusy, shutdownDone, nTools,
                   L, nLaunch, slots, evalVars, auxVars, turnVars,
                   chatVars, gateVars, routerVars>>

\* Outputs a subprocess of the scheduler model may have written at close.
SchedOutputs == {<<>>, <<"BLK">>}
SchedCodes == ExitCodes \ {SpawnFailedCode}

\* The priorities the issues of the store were created with.
InitialPriority == <<"high", "low", "medium">>

\* The health flags as the first check of router.start() left them.
StartHealth == [e \in Endpoints |-> e = NumEndpoints]

EvalIdle ==
    /\ evOut = <<>> /\ evCode = 0 /\ evStatus = "idle" /\ evMessage = <<>>

TurnIdle ==
    /\ yoloMode = FALSE /\ turnPc = "idle" /\ iterations = 0
    /\ lastToolSig = <<"undefined">>
    /\ repeatCount = 0 /\ reply = <<>> /\ runLen = 0 /\ runSig = <<>>
    /\ turnError = "none" /\ nTurns = 0

\* Manager.chat has not been called.
NoTurn == [pc |-> "none", end |-> "none"]

ChatIdle ==
    /\ chatBusy = FALSE /\ pendingMessages = <<>> /\ messages = <<>>
    /\ activeTurns = [m \in ChatCalls |-> NoTurn] /\ nChat = 0

\* No tool call has reached the approval gate; confirmCallback is null.
NotAsked == [name |-> "none", issue |-> 0, desc |-> <<>>, pending |-> FALSE]

NoRun == [name |-> "none", issue |-> 0, approved |-> FALSE, yolo |-> FALSE]

GateIdle ==
    /\ confirmCallback = FALSE /\ asked = NotAsked
    /\ answer = "none" /\ toolResult = "none"
    /\ lastRun = NoRun
    /\ commits = 0

\* A request no complete() or stream() call was made for.
NoCall == [kind |-> "none", state |-> "none", ep |-> 0, sent |-> 0, waited |-> FALSE]

\* LlmRouter's own state after construction; no request has been made.
RouterFresh ==
    /\ currentRequests = [e \in Endpoints |-> 0]
    /\ weightCounter = [e \in Endpoints |-> 0]
    /\ queue = <<>>
    /\ calls = [r \in Requests |-> NoCall]
    /\ nReq = 0
    /\ probe = [e \in Endpoints |-> "none"]
    /\ selections = <<>>
    /\ cycleCount = [e \in Endpoints |-> 0]

RouterIdle ==
    /\ weight = [e \in Endpoints |-> 1]
    /\ epMaxConcurrent = [e \in Endpoints |-> 1]
    /\ RouterFresh

\* initialize() has not run.
RecoverIdle ==
    /\ prevStatus = [i \in Issues |-> "none"] /\ recoveryInfo = {}
    /\ initState = "new"

\* IssueTracker.create has not been called.
TrackerIdle == assignedIds = <<>>

\* canTransition has not been called.
LifecycleIdle == transFrom = "open" /\ transTo = "open" /\ transOk = "none"

\* detectConflicts has not been called.
ConflictIdle ==
    /\ issueText = <<>> /\ issueSpecs = <<>>
    /\ runningWorkers = {} /\ conflicts = <<>>

BatchIdle ==
    /\ toolUseBlocks = <<>> /\ nextBlock = 1 /\ inExecuteTool = {}
    /\ toolResults = <<>> /\ toolResultMsgs = <<>> /\ loopPc = "idle"

LaterIdle == TrackerIdle /\ LifecycleIdle /\ ConflictIdle /\ BatchIdle

AuxIdle == RecoverIdle /\ LaterIdle

\* The Manager's own fields after construction.
ManagerNew ==
    /\ workers = [i \in Issues |-> 0]
    /\ workerEndpoints = [i \in Issues |-> 0]
    /\ workerQueue = <<>>
    /\ maxConcurrent \in 1..MaxCap
    /\ now = 0
    /\ toolBusy = FALSE
    /\ shutdownDone = FALSE
    /\ nTools = 0
    /\ nFaults = 0
    /\ L = [k \in Launches |-> NoLaunch]
    /\ nLaunch = 0
    /\ slots = [e \in Endpoints |-> 0]

ManagerFresh ==
    /\ issueStatus = [i \in Issues |-> "open"]
    /\ issuePriority = [i \in Issues |-> InitialPriority[((i - 1) % 3) + 1]]
    /\ wtExists = [i \in Issues |-> FALSE]
    /\ ManagerNew

SchedInit == ManagerFresh /\ healthy = StartHealth

Init ==
    SchedInit /\ EvalIdle /\ TurnIdle /\ ChatIdle /\ GateIdle /\ RouterIdle /\ AuxIdle

Next ==
    \/ \E i \in Issues : SpawnWorker(i) /\ UNCHANGED gateVars
    \/ \E k \in Launches, ok \in BOOLEAN : GitWorktreeAdd(k, ok)
    \/ \E k \in Launches, o \in {"ok", "git", "start"} : LaunchResume(k, o)
    \/ \E k \in Launches, c \in {"spawn", "kill"} : ProcError(k, c)
    \/ \E k \in Launches, out \in SchedOutputs, code \in SchedCodes : ProcClose(k, out, code)
    \/ \E i \in ReprioritizeIssues, p \in Priorities :
           Reprioritize(i, p) /\ UNCHANGED gateVars
    \/ \E i \in MergeIssues, o \in MergeOutcomes : MergeIssue(i, o) /\ UNCHANGED gateVars
    \/ \E i \in DeleteIssues : DeleteIssue(i) /\ UNCHANGED gateVars
    \/ shutdown
    \/ \E e \in Endpoints : HealthChange(e)

Spec == Init /\ [][Next]_vars

\* ------------------------------------------- scheduler: stated properties

\* C1: the number of running workers, as Manager.getRunningWorkerCount
\* counts them, never exceeds config.worker.maxConcurrent.
RunningWithinCap == getRunningWorkerCount(L, workers) <= maxConcurrent

\* C2: no two Worker instances of one issue are running at the same time.
OneRunningWorkerPerIssue ==
    \A j, k \in Launches :
        (j # k /\ L[j].status = "running" /\ L[k].status = "running")
            => L[j].issue # L[k].issue

\* C3: a launch that reserved an endpoint slot has it released at most once,
\* and exactly once when its subprocess has closed.
SlotReleasedExactlyOnce ==
    \A k \in Launches :
        L[k].ep # 0 =>
            /\ L[k].releases <= 1
            /\ L[k].proc = "closed" => L[k].releases = 1

\* C4: an entry drainWorkerQueue took from the queue whose launch failed is
\* still queued: no entry leaves the queue without its worker starting.
QueuedNeverDropped ==
    \A k \in Launches :
        (L[k].ctx = "drain" /\ L[k].phase = "failed")
            => InQueue(workerQueue, L[k].issue)

\* C5: the entry drainWorkerQueue launches is the one of highest priority
\* and, among those of equal priority, the one enqueued first.
BeforeInQueue(a, b) ==
    \/ PRIORITY_ORDER[a.priority] < PRIORITY_ORDER[b.priority]
    \/ /\ PRIORITY_ORDER[a.priority] = PRIORITY_ORDER[b.priority]
       /\ a.queuedAt < b.queuedAt

DrainsInPriorityThenArrivalOrder ==
    [][\A k \in Launches :
          (L[k].phase = "unused" /\ L'[k].ctx = "drain") =>
              \A n \in 1..Len(workerQueue) :
                  LET e == workerQueue[n]
                  IN  (e.issueId # L'[k].issue /\ issueStatus[e.issueId] # "none")
                          => \E m \in 1..Len(workerQueue) :
                                 /\ workerQueue[m].issueId = L'[k].issue
                                 /\ BeforeInQueue(workerQueue[m], e)]_vars

\* C6: with maxConcurrent 1, once the worker of issue 1 has closed while
\* issue 2 was queued behind it, issue 2 is being launched or has been
\* started, so that it becomes running without further input.
DrainLaunches(i) == {k \in Launches : L[k].ctx = "drain" /\ L[k].issue = i}

QueuedIssueGetsToRun ==
    (/\ maxConcurrent = 1
     /\ \E k \in Launches : L[k].issue = 1 /\ L[k].ctx = "tool" /\ L[k].proc = "closed"
     /\ DrainLaunches(2) # {})
        => \E k \in DrainLaunches(2) : L[k].phase # "failed"

\* C7: every status change of an existing issue is an edge of
\* VALID_TRANSITIONS.
StatusChangesFollowGraph ==
    [][\A i \in Issues :
          (issueStatus[i] # "none" /\ issueStatus'[i] # "none"
             /\ issueStatus'[i] # issueStatus[i])
              => canTransition(issueStatus[i], issueStatus'[i])]_vars

\* C8: a Worker's terminal status is set at most once: by the 'error'
\* handler or by evaluateResult on 'close', never by both.
TerminalSets(w) ==
    (IF w.err # "none" THEN 1 ELSE 0) + (IF w.proc = "closed" THEN 1 ELSE 0)

TerminalSetOnce == \A k \in Launches : TerminalSets(L[k]) <= 1

\* The callback registered with onComplete has run for launch k: it is
\* called at the end of evaluateResult, which only the 'close' handler calls.
CallbackRan(k) == L[k].proc = "closed"

\* C26: a launched worker that has reached a terminal status has had its
\* completion callback run (the callback releases the slot, then starts the
\* drain, then injects the notification), and it runs once only.
CallbackAtTerminalState ==
    \A k \in Launches : L[k].status \in Terminal => CallbackRan(k)

\* C28: when delete_issue takes the entry of a running worker out of the
\* workers map, or shutdown runs, the subprocess is killed and the slot bound
\* to the issue released in that step, so that no subprocess runs on without
\* an entry in the map.
WorkerKilledWhenRemoved ==
    [][\A i \in Issues :
         LET k == workers[i]
         IN  (/\ k # 0
              /\ hasProc(L[k])
              /\ workers'[i] = 0 \/ (shutdownDone' /\ ~shutdownDone))
             => /\ L'[k].killed
                /\ workerEndpoints[i] # 0 => L'[k].releases = L[k].releases + 1]_vars

\* The load of endpoint e: the calls in flight and the slots reserved.
EndpointLoad(e) == currentRequests[e] + slots[e]

\* C29: the endpoint launchWorker binds a launch to (it reserves the slot
\* and starts the Worker on it) is healthy at that moment and its load is
\* below its maxConcurrent.
ReservedWithSpareCapacity ==
    [][\A k \in Launches :
         (L[k].ep = 0 /\ L'[k].ep # 0)
             => /\ healthy[L'[k].ep]
                /\ EndpointLoad(L'[k].ep) < epMaxConcurrent[L'[k].ep]]_vars

\* The terminal outcome worker k reached first: 'failed' when the 'error'
\* handler ran, else the status evaluateResult set.
OutcomeReached(k) == IF L[k].err # "none" THEN "failed" ELSE L[k].status

\* The notifications of the conversation and of pendingMessages.
NotificationsInjected ==
    Cardinality({n \in 1..Len(messages) : messages[n].kind = "user"})
        + Len(pendingMessages)

\* C31: a worker whose callback has run has one notification in the
\* conversation or waiting behind the turn in progress, and the outcome the
\* notification names (the status handed to the callback) is the terminal
\* outcome the worker reached.
NotificationNamesOutcome ==
    /\ NotificationsInjected = Cardinality({k \in Launches : CallbackRan(k)})
    /\ \A k \in Launches : CallbackRan(k) => L[k].status = OutcomeReached(k)

\* launchWorker call k fails in this step: it returns 'No healthy LLM
\* endpoints available.' or 'Failed to spawn worker'.
LaunchFails(k) == L[k].phase # "failed" /\ L'[k].phase = "failed"

\* C35: a launchWorker call that fails leaves no effect: the issue has the
\* status it had, no endpoint slot is reserved and no Worker is registered
\* for the issue.
FailedLaunchHasNoEffect ==
    [][\A k \in Launches :
          LaunchFails(k) =>
              /\ issueStatus'[L[k].issue] = issueStatus[L[k].issue]
              /\ slots' = slots
              /\ workers'[L[k].issue] = workers[L[k].issue]]_vars

\* A launchWorker call is between its first await and its return.
LaunchInProgress == \E k \in Launches : L[k].phase \in {"creating", "logging", "reusing"}

\* C37: whenever the queue holds an entry and no launch is in progress, the
\* running count is at the cap, so that spawnWorker enqueues a new request
\* behind the waiting ones.
QueueNeverOvertaken ==
    (workerQueue # <<>> /\ ~LaunchInProgress)
        => getRunningWorkerCount(L, workers) >= maxConcurrent

\* C38: once shutdown() has run no launchWorker call is made, no Worker
\* starts running, and no notification is handed to chat().
QuietAfterShutdown ==
    [][shutdownDone =>
          /\ nLaunch' = nLaunch
          /\ \A k \in Launches : L'[k].status = "running" => L[k].status = "running"
          /\ nChat' = nChat /\ messages' = messages]_vars

\* The issue ids of the worker queue, in order.
QueuedIds == [n \in 1..Len(workerQueue) |-> workerQueue[n].issueId]

\* C40: the worker queue holds each issue id at most once, and no issue id
\* is in the queue while a worker of that issue is running.
QueueHoldsIdleIssuesOnce ==
    /\ \A m, n \in 1..Len(QueuedIds) : m # n => QueuedIds[m] # QueuedIds[n]
    /\ \A n \in 1..Len(QueuedIds), k \in Launches :
          ~(L[k].issue = QueuedIds[n] /\ L[k].status = "running")

\* mergeWorktree reported success in this step.
MergeSucceeds(i) == \E o \in MergeOutcomes \ {"merge_failed"} : MergeIssue(i, o)

\* C33: a merge_issue call whose merge succeeds leaves the issue done, its
\* worktree removed and its workers entry dropped; one whose merge fails
\* leaves the issue status, the worktree and the workers map as they were.
MergeAllOrNothing ==
    [][\A i \in MergeIssues :
          /\ MergeSucceeds(i) =>
                issueStatus'[i] = "done" /\ ~wtExists'[i] /\ workers'[i] = 0
          /\ MergeIssue(i, "merge_failed") =>
                UNCHANGED <<issueStatus, wtExists, workers>>]_vars

\* ------------------------------------------ Worker.evaluateResult alone
\* One Worker whose subprocess closes with any captured output and exit code.
EvalInit ==
    /\ evOut \in Outputs
    /\ evCode \in ExitCodes
    /\ evStatus = "running"
    /\ evMessage = <<>>

\* proc.on('close') -> evaluateResult
EvaluateResult ==
    /\ evStatus = "running"
    /\ evStatus' = EvaluateStatus(evOut, evCode)
    /\ evMessage' = EvaluateMessage(evOut, evCode)
    /\ UNCHANGED <<evOut, evCode, auxVars, schedVars, turnVars, chatVars, gateVars,
                 routerVars>>

InitEval ==
    SchedInit /\ EvalInit /\ TurnIdle /\ ChatIdle /\ GateIdle /\ RouterIdle /\ AuxIdle

NextEval == EvaluateResult

SpecEval == InitEval /\ [][NextEval]_vars

\* The positions of the directive STATUS: BLOCKED in the output.
Directives == {i \in 1..Len(evOut) : evOut[i] = "BLK"}

\* The first directive carries a reason: after blanks, a character of its line.
ReasonStart ==
    LET d == Min(Directives)
    IN  {j \in (d + 1)..Len(evOut) :
            /\ evOut[j] \notin Space
            /\ \A m \in (d + 1)..(j - 1) : evOut[m] = "sp"}

\* The reason: from its first character to the end of the line.
ReasonText ==
    LET j == Min(ReasonStart)
        ends == {e \in j..Len(evOut) :
                    /\ \A m \in j..e : evOut[m] # "nl"
                    /\ (e = Len(evOut) \/ evOut[e + 1] = "nl")}
    IN  SubSeq(evOut, j, Min(ends))

\* C9: the sentinel decides "completed" whatever the exit code and the
\* directive; else the directive decides "blocked" and, when it carries a
\* reason, the reason is reported as written; else exit code 0 decides
\* "completed", reported as without signal; else the outcome is "failed".
ClassificationOrder ==
    evStatus # "running" =>
        LET sentinel == \E i \in 1..Len(evOut) : evOut[i] = "DONE"
        IN  IF sentinel
            THEN evStatus = "completed" /\ evMessage = <<"completed successfully">>
            ELSE IF Directives # {}
            THEN /\ evStatus = "blocked"
                 /\ Head(evMessage) = "blocked"
                 /\ ReasonStart # {} => Tail(evMessage) = ReasonText
            ELSE IF evCode = 0
            THEN /\ evStatus = "completed"
                 /\ evMessage = <<"exited without signaling completion">>
            ELSE evStatus = "failed" /\ evMessage = <<"failed">>

\* C9 witness: an output with the sentinel after a directive that carries a
\* reason, a non-zero exit code, classified.
SentinelBeatsDirective ==
    /\ evStatus = "completed"
    /\ evCode = 1
    /\ evOut = <<"BLK", "sp", "a", "DONE">>

\* ------------------------------------------------ Manager.processChat
MaxTurns == 2
MaxIterations == 27
MaxBatch == 2

\* const MAX_TOOL_ITERATIONS = this.config.manager.yoloMode ? Infinity : 25
IterationCap == 25
\* if (_repeatCount >= 3)
RepeatLimit == 3

\* The tool_use blocks a reply may carry: <<name, JSON.stringify(input)>>.
Calls == {<<"list_issues", "{}">>, <<"spawn_worker", "{1}">>}

RECURSIVE BatchesUpTo(_)
BatchesUpTo(n) ==
    IF n = 0 THEN {<<>>}
    ELSE LET S == BatchesUpTo(n - 1)
         IN  S \cup {Append(b, c) : b \in {x \in S : Len(x) = n - 1}, c \in Calls}

\* The non-empty ordered batches of tool calls.
Batches == BatchesUpTo(MaxBatch) \ {<<>>}

\* toolUseBlocks.map(b => `${b.name}:${JSON.stringify(b.input)}`).join('|')
RECURSIVE CallSig(_)
CallSig(batch) ==
    IF batch = <<>> THEN <<>>
    ELSE LET c == Head(batch)
         IN  <<c[1], ":", c[2]>>
                 \o (IF Len(batch) > 1 THEN <<"|">> ELSE <<>>)
                 \o CallSig(Tail(batch))

\* _repeatCount after the signature of the reply has been compared with
\* _lastToolSig.
NextRepeatCount(last, count, sig) == IF last = sig THEN count + 1 ELSE 0

RepeatLimitOffByOne(count) == count > RepeatLimit

RepeatLimitReached(count) == count >= RepeatLimit

\* iterations > MAX_TOOL_ITERATIONS
OverCapNever(n) == FALSE

OverCap(n) == ~yoloMode /\ n > IterationCap

TurnInit ==
    /\ yoloMode \in BOOLEAN
    /\ turnPc = "idle" /\ iterations = 0 /\ lastToolSig = <<"undefined">>
    /\ repeatCount = 0 /\ reply = <<>> /\ runLen = 0 /\ runSig = <<>>
    /\ turnError = "none" /\ nTurns = 0

\* chat() -> processChat(userMessage): a turn starts when none is in progress.
StartTurn ==
    /\ turnPc = "idle" /\ nTurns < MaxTurns
    /\ nTurns' = nTurns + 1
    /\ turnPc' = "loop"
    /\ iterations' = 0
    /\ reply' = <<>> /\ runLen' = 0 /\ runSig' = <<>> /\ turnError' = "none"
    /\ messages' = Append(messages, Msg(nTurns + 1, "user"))
    /\ UNCHANGED <<yoloMode, lastToolSig, repeatCount, schedVars, evalVars, auxVars,
                   chatBusy, pendingMessages, activeTurns, nChat, gateVars, routerVars>>

EndTurn(err) == turnPc' = "idle" /\ turnError' = err

\* An iteration that finds the cap exceeded: error event, break.
CapReached ==
    /\ turnPc = "loop" /\ iterations < MaxIterations
    /\ OverCap(iterations + 1)
    /\ iterations' = iterations + 1
    /\ EndTurn("cap")
    /\ UNCHANGED <<yoloMode, lastToolSig, repeatCount, reply, runLen, runSig,
                   nTurns, schedVars, evalVars, auxVars,
                   chatVars, gateVars, routerVars>>

\* An iteration whose reply requests no tool, or whose request throws.
ReplyNoTools(err) ==
    /\ turnPc = "loop" /\ iterations < MaxIterations
    /\ ~OverCap(iterations + 1)
    /\ iterations' = iterations + 1
    /\ reply' = <<>>
    /\ EndTurn(err)
    /\ messages' = IF err = "none" THEN Append(messages, Msg(nTurns, "assistant"))
                   ELSE messages
    /\ UNCHANGED <<yoloMode, lastToolSig, repeatCount, runLen, runSig, nTurns,
                   schedVars, evalVars, auxVars,
                   chatBusy, pendingMessages, activeTurns, nChat, gateVars, routerVars>>

\* How the execution of a batch ends: every tool returned and none spawned
\* a worker, a spawn_worker answered 'Worker spawned', or a tool raised.
ToolOutcomes == {"next", "spawned", "raised"}

AnyBatchSpawns(batch) == TRUE

\* toolBlock.name === 'spawn_worker' for some block of the batch
HasSpawnWorker(batch) == \E n \in 1..Len(batch) : batch[n][1] = "spawn_worker"

\* An iteration whose reply requests the tools of `batch`: the repeat guard,
\* then the execution of every tool of the batch. A tool that raises ends
\* the turn in processChat's catch, before the tool-result message; a
\* spawn_worker that answers 'Worker spawned' ends it after that message.
ReplyTools(batch, outcome) ==
    /\ turnPc = "loop" /\ iterations < MaxIterations
    /\ ~OverCap(iterations + 1)
    /\ outcome = "spawned" => HasSpawnWorker(batch)
    /\ iterations' = iterations + 1
    /\ reply' = batch
    /\ lastToolSig' = CallSig(batch)
    /\ LET count == NextRepeatCount(lastToolSig, repeatCount, CallSig(batch))
       IN  IF RepeatLimitReached(count)
           THEN /\ repeatCount' = 0
                /\ EndTurn("repeat")
                /\ messages' = Append(messages, Msg(nTurns, "tool_use"))
                /\ UNCHANGED <<runLen, runSig>>
           ELSE /\ repeatCount' = count
                /\ runLen' = IF runLen > 0 /\ runSig = batch THEN runLen + 1 ELSE 1
                /\ runSig' = batch
                /\ IF outcome = "raised"
                   THEN /\ messages' = Append(messages, Msg(nTurns, "tool_use"))
                        /\ EndTurn("tool")
                   ELSE /\ messages' = messages \o <<Msg(nTurns, "tool_use"),
                                                      Msg(nTurns, "tool_result")>>
                        /\ IF outcome = "spawned" THEN EndTurn("none")
                           ELSE UNCHANGED <<turnPc, turnError>>
    /\ UNCHANGED <<yoloMode, nTurns, schedVars, evalVars, auxVars,
                   chatBusy, pendingMessages, activeTurns, nChat, gateVars, routerVars>>

InitTurn ==
    SchedInit /\ EvalIdle /\ TurnInit /\ ChatIdle /\ GateIdle /\ RouterIdle /\ AuxIdle

NextTurn ==
    \/ StartTurn
    \/ CapReached
    \/ \E err \in {"none", "llm"} : ReplyNoTools(err)
    \/ \E batch \in Batches, outcome \in ToolOutcomes : ReplyTools(batch, outcome)

SpecTurn == InitTurn /\ [][NextTurn]_vars

\* A turn in progress goes on: the model request and every tool call return.
TurnStep ==
    \/ CapReached
    \/ \E err \in {"none", "llm"} : ReplyNoTools(err)
    \/ \E batch \in Batches, outcome \in ToolOutcomes : ReplyTools(batch, outcome)

SpecTurnLive == InitTurn /\ [][NextTurn]_vars /\ WF_vars(TurnStep)

\* The model requests the current turn has issued: one per iteration, none
\* in the iteration that found the cap exceeded.
RequestsIssued == IF turnError = "cap" THEN iterations - 1 ELSE iterations

IsPrefix(a, b) == Len(a) <= Len(b) /\ SubSeq(b, 1, Len(a)) = a

ToolResultAppended ==
    /\ Len(messages') > Len(messages)
    /\ messages'[Len(messages')].kind = "tool_result"

\* The step ends the turn.
TurnEnds == turnPc = "loop" /\ turnPc' = "idle"

\* The ends the statement names: a reply without tool use, a loop guard,
\* a failed model call.
EndsAsStated ==
    \/ turnError' \in {"repeat", "cap", "llm"}
    \/ /\ turnError' = "none" /\ Len(messages') > Len(messages)
       /\ messages'[Len(messages')].kind = "assistant"

\* The reply of the iteration asks for spawn_worker.
AsksForSpawn == <<"spawn_worker", "{1}">> \in {reply'[n] : n \in 1..Len(reply')}

ToolUseAlwaysAnswered ==
    \A n \in 1..Len(messages) :
        messages[n].kind = "tool_use"
            => n < Len(messages) /\ messages[n + 1].kind = "tool_result"

\* C39: the repeat guard does not abort the first batch of a turn, and the
\* turn after one the guard aborted starts with the repeat count at zero and
\* no signature remembered.
RepeatGuardPerTurn ==
    /\ [][(turnPc = "loop" /\ iterations = 0) => turnError' # "repeat"]_vars
    /\ [][(turnPc = "idle" /\ turnError = "repeat" /\ turnPc' = "loop")
             => (repeatCount' = 0 /\ lastToolSig' = <<"undefined">>)]_vars

MaxBlocks == 3

BlockIds == 1..MaxBlocks
BlockNames == {"list_issues", "spawn_worker"}
ToolAnswers == {"ok", "error text"}

\* The tool_use blocks a response may carry: block ids are unique.
BlockLists ==
    {b \in UNION {[1..n -> [id : BlockIds, name : BlockNames]] : n \in 1..MaxBlocks} :
        \A m, n \in 1..Len(b) : m # n => b[m].id # b[n].id}

\* `await this.executeTool(...)`: the loop goes on when the call has settled.
NotAwaited == TRUE

Awaited == inExecuteTool = {}

\* A response with tool_use blocks has passed the repeat guard.
InitBatch ==
    /\ SchedInit /\ EvalIdle /\ TurnIdle /\ ChatIdle /\ GateIdle /\ RouterIdle
    /\ RecoverIdle /\ TrackerIdle /\ LifecycleIdle /\ ConflictIdle
    /\ toolUseBlocks \in BlockLists
    /\ nextBlock = 1 /\ inExecuteTool = {}
    /\ toolResults = <<>> /\ toolResultMsgs = <<>> /\ loopPc = "loop"

batchFrame ==
    UNCHANGED <<schedVars, evalVars, recoverVars, trackerVars, lifecycleVars,
                conflictVars, turnVars, chatVars, gateVars, routerVars>>

\* for (const toolBlock of toolUseBlocks): executeTool is called for the
\* next block.
CallExecuteTool ==
    /\ loopPc = "loop" /\ Awaited
    /\ nextBlock <= Len(toolUseBlocks)
    /\ inExecuteTool' = inExecuteTool \cup {nextBlock}
    /\ nextBlock' = nextBlock + 1
    /\ UNCHANGED <<toolUseBlocks, toolResults, toolResultMsgs, loopPc>>
    /\ batchFrame

\* executeTool returns for block n: its result is pushed to toolResults.
ExecuteToolReturns(n, text) ==
    /\ loopPc = "loop" /\ n \in inExecuteTool
    /\ inExecuteTool' = inExecuteTool \ {n}
    /\ toolResults' = Append(toolResults,
                             [tool_use_id |-> toolUseBlocks[n].id,
                              content |-> <<toolUseBlocks[n].name, text>>])
    /\ UNCHANGED <<toolUseBlocks, nextBlock, toolResultMsgs, loopPc>>
    /\ batchFrame

\* executeTool raises for block n: processChat's catch ends the turn.
ExecuteToolRaises(n) ==
    /\ loopPc = "loop" /\ n \in inExecuteTool
    /\ inExecuteTool' = inExecuteTool \ {n}
    /\ loopPc' = "raised"
    /\ UNCHANGED <<toolUseBlocks, nextBlock, toolResults, toolResultMsgs>>
    /\ batchFrame

\* After the loop: this.messages.push({ role: 'user', content: toolResults }).
PushToolResults ==
    /\ loopPc = "loop" /\ Awaited
    /\ nextBlock > Len(toolUseBlocks)
    /\ toolResultMsgs' = Append(toolResultMsgs, toolResults)
    /\ loopPc' = "pushed"
    /\ UNCHANGED <<toolUseBlocks, nextBlock, inExecuteTool, toolResults>>
    /\ batchFrame

NextBatch ==
    \/ CallExecuteTool
    \/ \E n \in 1..MaxBlocks, text \in ToolAnswers : ExecuteToolReturns(n, text)
    \/ \E n \in 1..MaxBlocks : ExecuteToolRaises(n)
    \/ PushToolResults

SpecBatch == InitBatch /\ [][NextBatch]_vars

\* Result n answers block n.
AnswersBlock(results, n) ==
    /\ results[n].tool_use_id = toolUseBlocks[n].id
    /\ results[n].content[1] = toolUseBlocks[n].name

\* C34: the tool calls of a response run one at a time in the order of the
\* request (a call starts only when every earlier one has returned), and
\* the one tool-result message pushed for the response holds one result per
\* call, in that order.
ToolsRunInOrder ==
    /\ Cardinality(inExecuteTool) <= 1
    /\ \A n \in inExecuteTool : n = nextBlock - 1 /\ Len(toolResults) = n - 1
    /\ \A n \in 1..Len(toolResults) : AnswersBlock(toolResults, n)
    /\ Len(toolResultMsgs) <= 1
    /\ loopPc = "pushed" <=> Len(toolResultMsgs) = 1
    /\ \A k \in 1..Len(toolResultMsgs) :
          /\ Len(toolResultMsgs[k]) = Len(toolUseBlocks)
          /\ \A n \in 1..Len(toolUseBlocks) : AnswersBlock(toolResultMsgs[k], n)

\* The results of three calls whose ids are not in ascending order have been
\* pushed as one message.
ThreeResultsPushed ==
    /\ loopPc = "pushed"
    /\ Len(toolUseBlocks) = MaxBlocks
    /\ toolUseBlocks[1].id > toolUseBlocks[2].id
    /\ Len(toolResultMsgs[1]) = MaxBlocks

\* ------------------------------------------------- Manager.initialize
\* The statuses an issue file of a previous session may carry.
DiskStatuses == {"open", "in_progress", "review", "done", "none"}

OrphanedWithoutWorktree(i, listed) ==
    /\ workers[i] = 0
    /\ issueStatus[i] \in {"in_progress", "review"}

\* The test of initialize's loop over listWorktrees(): a listed worktree of
\* issue i, no entry in the workers map, an issue in_progress or in review.
Orphaned(i, listed) ==
    /\ listed /\ wtExists[i]
    /\ workers[i] = 0
    /\ issueStatus[i] \in {"in_progress", "review"}

\* initialize(): the orphan check. listWorktrees() may reject (listed is
\* FALSE): the catch logs a warning and nothing is reset.
initialize(listed) ==
    /\ initState = "new"
    /\ LET orphaned == {i \in Issues : Orphaned(i, listed)}
       IN  /\ issueStatus' = [i \in Issues |->
                                 IF i \in orphaned
                                 THEN updateStatus(issueStatus, i, "open")[i]
                                 ELSE issueStatus[i]]
           /\ recoveryInfo' = orphaned
    /\ prevStatus' = issueStatus
    /\ initState' = IF listed THEN "checked" ELSE "list_failed"
    /\ UNCHANGED <<issuePriority, wtExists, workers, workerEndpoints, workerQueue,
                   maxConcurrent, now, toolBusy, shutdownDone, nTools, nFaults, L,
                   nLaunch, healthy, slots, evalVars, turnVars, chatVars, gateVars,
                   routerVars, laterVars>>

InitRecover ==
    /\ issueStatus \in [Issues -> DiskStatuses]
    /\ wtExists \in [Issues -> BOOLEAN]
    /\ issuePriority = [i \in Issues |-> InitialPriority[((i - 1) % 3) + 1]]
    /\ ManagerNew /\ healthy = StartHealth
    /\ EvalIdle /\ TurnIdle /\ ChatIdle /\ GateIdle /\ RouterIdle /\ RecoverIdle
    /\ LaterIdle

NextRecover == \E listed \in BOOLEAN : initialize(listed)

SpecRecover == InitRecover /\ [][NextRecover]_vars

\* C21: after initialize() the issues reset to open are exactly those that
\* were in_progress or in review (none has a live Worker), every other
\* status is unchanged, and the recovery summary lists exactly those.
RecoveryResetsEveryStaleIssue ==
    initState # "new" =>
        \A i \in Issues :
            LET stale == prevStatus[i] \in {"in_progress", "review"} /\ workers[i] = 0
            IN  /\ issueStatus[i] = IF stale THEN "open" ELSE prevStatus[i]
                /\ i \in recoveryInfo <=> stale

\* C21 as the code has it: the issues reset are those in_progress or in
\* review whose worktree listWorktrees() reported; when the listing fails
\* nothing is reset and the summary is empty.
RecoveryResetsOrphanedWorktrees ==
    initState # "new" =>
        \A i \in Issues :
            LET stale == /\ prevStatus[i] \in {"in_progress", "review"}
                         /\ workers[i] = 0
                         /\ wtExists[i]
                         /\ initState = "checked"
            IN  /\ issueStatus[i] = IF stale THEN "open" ELSE prevStatus[i]
                /\ i \in recoveryInfo <=> stale

\* One issue in review was reset; another, in_progress without a worktree,
\* was left as it was.
ResetOneLeftOne ==
    /\ initState = "checked"
    /\ \E i, j \in Issues :
           /\ prevStatus[i] = "review" /\ issueStatus[i] = "open" /\ i \in recoveryInfo
           /\ prevStatus[j] = "in_progress" /\ issueStatus[j] = "in_progress"
           /\ ~wtExists[j]

\* ---------------------------------------------------- IssueTracker ids
\* The issues IssueTracker.list() finds: one file each in .myratree/issues.
Existing == {i \in Issues : issueStatus[i] # "none"}

MaxOf(S) == CHOOSE x \in S : \A y \in S : y <= x

\* IssueTracker.getNextId: '001' for an empty directory, else the largest
\* existing id plus one.
getNextId == IF Existing = {} THEN 1 ELSE MaxOf(Existing) + 1

\* create_issue tool -> IssueTracker.create: the file of a new open issue
\* with the next id is written.
create(priority) ==
    /\ ToolCall
    /\ getNextId <= NumIssues
    /\ issueStatus' = [issueStatus EXCEPT ![getNextId] = "open"]
    /\ issuePriority' = [issuePriority EXCEPT ![getNextId] = priority]
    /\ assignedIds' = Append(assignedIds, getNextId)
    /\ UNCHANGED <<wtExists, workers, workerEndpoints, workerQueue, now, toolBusy,
                   L, nLaunch, slots, evalVars, recoverVars, lifecycleVars,
                   conflictVars, batchVars, turnVars, chatVars, gateVars, routerVars>>

\* A project without issues, the Manager just constructed.
InitTracker ==
    /\ issueStatus = [i \in Issues |-> "none"]
    /\ issuePriority = [i \in Issues |-> InitialPriority[((i - 1) % 3) + 1]]
    /\ wtExists = [i \in Issues |-> FALSE]
    /\ ManagerNew /\ healthy = StartHealth
    /\ EvalIdle /\ TurnIdle /\ ChatIdle /\ GateIdle /\ RouterIdle /\ AuxIdle

NextTracker ==
    \/ \E priority \in Priorities : create(priority)
    \/ \E i \in Issues : DeleteIssue(i) /\ UNCHANGED gateVars

SpecTracker == InitTracker /\ [][NextTracker]_vars

\* C23: over any sequence of create and delete_issue every create() returns
\* an id strictly greater than every id assigned before it, so no id is
\* assigned twice.
IdsStrictlyIncrease ==
    \A a, b \in 1..Len(assignedIds) : a < b => assignedIds[a] < assignedIds[b]

\* -------------------------------------------------------- canTransition
\* The arguments tried: the five statuses, and strings that are no status
\* (the parameters are typed, the values arrive from tool input and files).
StatusInputs == IssueStatuses \cup {"closed", "none", ""}

\* One call canTransition(transFrom, transTo).
CheckTransition ==
    /\ transOk = "none"
    /\ transOk' = IF canTransition(transFrom, transTo) THEN "yes" ELSE "no"
    /\ UNCHANGED <<transFrom, transTo, schedVars, evalVars, recoverVars,
                   trackerVars, conflictVars, batchVars, turnVars, chatVars, gateVars,
                   routerVars>>

InitLifecycle ==
    /\ transFrom \in StatusInputs /\ transTo \in StatusInputs /\ transOk = "none"
    /\ SchedInit /\ EvalIdle /\ TurnIdle /\ ChatIdle /\ GateIdle /\ RouterIdle
    /\ RecoverIdle /\ TrackerIdle /\ ConflictIdle /\ BatchIdle

NextLifecycle == CheckTransition

SpecLifecycle == InitLifecycle /\ [][NextLifecycle]_vars

\* The eleven transitions the lifecycle allows.
AllowedPairs ==
    {<<"open", "in_progress">>, <<"open", "blocked">>,
     <<"in_progress", "review">>, <<"in_progress", "blocked">>,
     <<"in_progress", "open">>,
     <<"review", "done">>, <<"review", "in_progress">>, <<"review", "open">>,
     <<"blocked", "open">>, <<"blocked", "in_progress">>,
     <<"done", "open">>}

\* C24: canTransition(from, to) is true exactly for the eleven allowed
\* pairs and false for every other pair, from = to included.
TransitionTableExact ==
    transOk # "none" =>
        (transOk = "yes" <=> <<transFrom, transTo>> \in AllowedPairs)

\* A done issue may be reopened.
ReopenAllowed == transFrom = "done" /\ transTo = "open" /\ transOk = "yes"

\* ------------------------------------------------------ detectConflicts
\* A path is the sequence of its pieces: names, "/" and ".". The name
\* "auth" followed by "z" spells a name that begins with "auth".
LoginTs == <<"src", "/", "auth", "/", "login", ".", "ts">>
SessionTs == <<"src", "/", "auth", "/", "session", ".", "ts">>
AuthDir == <<"src", "/", "auth">>
AuthzFile == <<"src", "/", "auth", "z", "/", "x", ".", "ts">>
LibFile == <<"lib", "/", "util", ".", "ts">>
SpecFile == <<"specs", "/", "auth", ".", "md">>

\* What pathRegex can match in the text of an issue.
PathMatches == {LoginTs, SessionTs, AuthDir, AuthzFile, LibFile}

MaxMatches == 2

Texts == UNION {[1..n -> PathMatches] : n \in 0..MaxMatches}

ConflictIssues == {1, 2}

LastIndexOf(m, c) ==
    LET at == {k \in 1..Len(m) : m[k] = c}
    IN  IF at = {} THEN 0 ELSE CHOOSE k \in at : \A j \in at : j <= k

\* m.includes('.') ? m.substring(0, m.lastIndexOf('/')) : m
DirOf(m) ==
    IF \E k \in 1..Len(m) : m[k] = "."
    THEN SubSeq(m, 1, LastIndexOf(m, "/") - 1)
    ELSE m

\* extractFilePaths: the directory of every match that is not empty, then
\* the spec files as they are; the list holds no path twice.
extractFilePaths(i) ==
    ({DirOf(issueText[i][k]) : k \in 1..Len(issueText[i])} \ {<<>>})
        \cup issueSpecs[i]

SamePath(p, op) == p = op

\* String.prototype.startsWith
startsWith(p, op) == Len(op) <= Len(p) /\ SubSeq(p, 1, Len(op)) = op

\* detectConflicts(issue): for every other issue with a running Worker the
\* paths of the issue that overlap a path of the other one; the other issue
\* is reported when there are any.
detectConflicts(i) ==
    LET issuePaths == extractFilePaths(i)
        overlapping(w) ==
            {q \in issuePaths :
               \E op \in extractFilePaths(w) : startsWith(q, op) \/ startsWith(op, q)}
    IN  IF issuePaths = {} THEN {}
        ELSE {[worker |-> w, overlapping |-> overlapping(w)] :
                w \in {x \in runningWorkers \ {i} : overlapping(x) # {}}}

NotCalled == [called |-> FALSE, found |-> {}]

\* One call detectConflicts(issue i).
DetectConflicts(i) ==
    /\ ~conflicts[i].called
    /\ conflicts' = [conflicts EXCEPT
                       ![i] = [called |-> TRUE, found |-> detectConflicts(i)]]
    /\ UNCHANGED <<issueText, issueSpecs, runningWorkers, schedVars, evalVars,
                   recoverVars, trackerVars, lifecycleVars, batchVars, turnVars, chatVars,
                   gateVars, routerVars>>

InitConflict ==
    /\ issueText \in [ConflictIssues -> Texts]
    /\ issueSpecs \in [ConflictIssues -> {{}, {SpecFile}}]
    /\ runningWorkers \in SUBSET ConflictIssues
    /\ conflicts = [i \in ConflictIssues |-> NotCalled]
    /\ SchedInit /\ EvalIdle /\ TurnIdle /\ ChatIdle /\ GateIdle /\ RouterIdle
    /\ RecoverIdle /\ TrackerIdle /\ LifecycleIdle /\ BatchIdle

NextConflict == \E i \in ConflictIssues : DetectConflicts(i)

SpecConflict == InitConflict /\ [][NextConflict]_vars

\* Issue w is among the conflicts reported for issue i.
Reported(i, w) ==
    conflicts[i].called /\ \E c \in conflicts[i].found : c.worker = w

\* Some path token of one issue is a prefix of a path token of the other.
TokensOverlap(i, w) ==
    \E q \in extractFilePaths(i), op \in extractFilePaths(w) :
        IsPrefix(q, op) \/ IsPrefix(op, q)

\* C25: login.ts of src/auth against a running worker on session.ts of
\* src/auth is reported as a conflict through src/auth; an issue with a
\* running worker is reported exactly when a path token of one issue is a
\* prefix of a path token of the other; and with both workers running each
\* issue is reported for the other or neither is.
ConflictIsPrefixOverlap ==
    /\ \A i \in ConflictIssues : \A w \in ConflictIssues \ {i} :
          (conflicts[i].called /\ w \in runningWorkers)
              => (Reported(i, w) <=> TokensOverlap(i, w))
    /\ \A i \in ConflictIssues : \A w \in ConflictIssues \ {i} :
          (conflicts[i].called /\ conflicts[w].called
             /\ runningWorkers = ConflictIssues)
              => (Reported(i, w) <=> Reported(w, i))
    /\ (/\ conflicts[1].called /\ 2 \in runningWorkers
        /\ issueText = <<(<<LoginTs>>), (<<SessionTs>>)>>
        /\ issueSpecs = <<{}, {}>>)
           => conflicts[1].found = {[worker |-> 2, overlapping |-> {AuthDir}]}

\* The files login.ts and session.ts of src/auth: issue 2 is reported for
\* issue 1 with the directory they share.
SharedDirectoryReported ==
    /\ issueText = <<(<<LoginTs>>), (<<SessionTs>>)>>
    /\ issueSpecs = <<{}, {}>>
    /\ runningWorkers = {2}
    /\ conflicts[1].called
    /\ conflicts[1].found = {[worker |-> 2, overlapping |-> {AuthDir}]}

\* ---------------------------------------------------------- LlmRouter
\* The router's state while one of its methods runs: health flags,
\* currentRequests, weightCounter, queue, the calls made, and the record of
\* selections.
RouterState ==
    [h |-> healthy, cur |-> currentRequests, wc |-> weightCounter, q |-> queue,
     calls |-> calls, sel |-> selections, cyc |-> cycleCount]

SetRouterState(st) ==
    /\ healthy' = st.h
    /\ currentRequests' = st.cur
    /\ weightCounter' = st.wc
    /\ queue' = st.q
    /\ calls' = st.calls
    /\ selections' = st.sel
    /\ cycleCount' = st.cyc

\* Everything of the scheduler model but the health flags.
managerVars ==
    <<issueStatus, issuePriority, wtExists, workers, workerEndpoints, workerQueue,
      maxConcurrent, now, toolBusy, shutdownDone, nTools, nFaults, L, nLaunch, slots>>

AlwaysBelowCap(cur, e) == TRUE

\* ep.currentRequests < ep.config.maxConcurrent
BelowCap(cur, e) == cur[e] < epMaxConcurrent[e]

\* The filter of selectEndpoint.
Available(st) == {e \in Endpoints : st.h[e] /\ BelowCap(st.cur, e)}

\* The loop of selectEndpoint: the available endpoint of lowest
\* weightCounter, the first of them in registration order.
Best(st) ==
    CHOOSE e \in Available(st) :
        \A f \in Available(st) :
            st.wc[e] < st.wc[f] \/ (st.wc[e] = st.wc[f] /\ e <= f)

\* selectEndpoint: null (0) when no endpoint is available; else the best
\* one, its weightCounter incremented, and every weightCounter reset once
\* all available endpoints have reached their weight.
selectEndpoint(st) ==
    IF Available(st) = {} THEN [ep |-> 0, st |-> st]
    ELSE LET best == Best(st)
             wc1 == [st.wc EXCEPT ![best] = @ + 1]
             allMaxed == \A e \in Available(st) : wc1[e] >= weight[e]
             reset == wc1[best] >= weight[best] /\ allMaxed
         IN  [ep |-> best,
              st |-> [st EXCEPT !.wc = IF reset THEN [e \in Endpoints |-> 0] ELSE wc1,
                                !.sel = Append(@, best),
                                !.cyc = IF reset THEN wc1 ELSE @]]

\* executeRequest / stream up to the await of the client: currentRequests++.
Dispatch(st, r, e) ==
    [st EXCEPT !.cur[e] = @ + 1,
               !.calls[r].state = "inflight", !.calls[r].ep = e,
               !.calls[r].sent = @ + 1]

NoDrain(st) == st

\* drainQueue: while a request waits and an endpoint can be selected, shift
\* the head and execute it.
RECURSIVE drainQueue(_)
drainQueue(st) ==
    IF st.q = <<>> THEN st
    ELSE LET s == selectEndpoint(st)
         IN  IF s.ep = 0 THEN st
             ELSE drainQueue(Dispatch([s.st EXCEPT !.q = Tail(@)], Head(st.q), s.ep))

NewCall(st, r, kind) == [st EXCEPT !.calls[r].kind = kind]

\* complete(request): execute on the selected endpoint, or wait in the queue.
complete(r) ==
    LET s == selectEndpoint(NewCall(RouterState, r, "complete"))
    IN  IF s.ep # 0 THEN Dispatch(s.st, r, s.ep)
        ELSE [s.st EXCEPT !.q = Append(@, r), !.calls[r].state = "queued",
                          !.calls[r].waited = TRUE]

StreamWaitsInQueue(st, r) ==
    [st EXCEPT !.q = Append(@, r), !.calls[r].state = "queued",
               !.calls[r].waited = TRUE]

\* throw new Error('No healthy endpoints available')
StreamRejected(st, r) == [st EXCEPT !.calls[r].state = "rejected"]

\* stream(request): stream from the selected endpoint, or throw.
stream(r) ==
    LET s == selectEndpoint(NewCall(RouterState, r, "stream"))
    IN  IF s.ep # 0 THEN Dispatch(s.st, r, s.ep)
        ELSE StreamRejected(s.st, r)

\* A caller calls complete() or stream().
Request(kind) ==
    /\ nReq < MaxReq
    /\ nReq' = nReq + 1
    /\ SetRouterState(IF kind = "complete" THEN complete(nReq + 1) ELSE stream(nReq + 1))
    /\ UNCHANGED <<weight, epMaxConcurrent, probe, managerVars, evalVars, auxVars, turnVars,
                   chatVars, gateVars>>

FailureKeepsHealth(h, e) == h

\* catch (err) { endpoint.healthy = false; throw err; }
FailureMarksUnhealthy(h, e) == [h EXCEPT ![e] = FALSE]

\* The client's call for request r settles. A failed complete() marks the
\* endpoint unhealthy (stream() has no catch); then the finally block
\* decrements currentRequests and drains the queue, and the result or the
\* error goes to the caller.
CallSettles(r, ok) ==
    /\ calls[r].state = "inflight"
    /\ LET e == calls[r].ep
           st == RouterState
           h1 == IF ~ok /\ calls[r].kind = "complete"
                 THEN FailureMarksUnhealthy(st.h, e) ELSE st.h
       IN  SetRouterState(drainQueue(
               [st EXCEPT !.h = h1, !.cur[e] = @ - 1,
                          !.calls[r].state = IF ok THEN "ok" ELSE "failed"]))
    /\ UNCHANGED <<weight, epMaxConcurrent, nReq, probe, managerVars, evalVars, auxVars,
                   turnVars, chatVars, gateVars>>

\* checkAllHealth starts a probe of every endpoint (one sweep at a time).
checkAllHealth ==
    /\ \A e \in Endpoints : probe[e] = "none"
    /\ probe' = [e \in Endpoints |-> "pending"]
    /\ UNCHANGED <<weight, epMaxConcurrent, currentRequests, weightCounter, queue,
                   calls, nReq, selections, cycleCount, schedVars, evalVars, auxVars,
                   turnVars, chatVars, gateVars>>

\* The probe of endpoint e settles: ep.healthy = await healthCheck(). When
\* it is the last of the sweep, checkAllHealth goes on to drainQueue.
ProbeSettles(e, result) ==
    /\ probe[e] = "pending"
    /\ LET last == \A f \in Endpoints \ {e} : probe[f] # "pending"
           st == [RouterState EXCEPT !.h[e] = result]
       IN  /\ probe' = IF last THEN [f \in Endpoints |-> "none"]
                       ELSE [probe EXCEPT ![e] = "done"]
           /\ SetRouterState(IF last THEN drainQueue(st) ELSE st)
    /\ UNCHANGED <<weight, epMaxConcurrent, nReq, managerVars, evalVars, auxVars, turnVars,
                   chatVars, gateVars>>

\* The endpoints of the configuration: weights and concurrency caps.
RouterConfig ==
    /\ weight \in {[e \in Endpoints |-> 1],
                   [e \in Endpoints |-> IF e = 1 THEN MaxWeight ELSE 1]}
    /\ epMaxConcurrent \in [Endpoints -> 1..MaxEpCap]

InitRouter ==
    /\ ManagerFresh /\ healthy = [e \in Endpoints |-> TRUE]
    /\ EvalIdle /\ TurnIdle /\ ChatIdle /\ GateIdle /\ AuxIdle
    /\ RouterConfig /\ RouterFresh

NextRouter ==
    \/ \E kind \in {"complete", "stream"} : Request(kind)
    \/ \E r \in Requests, ok \in BOOLEAN : CallSettles(r, ok)
    \/ checkAllHealth
    \/ \E e \in Endpoints, result \in BOOLEAN : ProbeSettles(e, result)

SpecRouter == InitRouter /\ [][NextRouter]_vars

\* The health sweep runs again and again (the interval timer of start()),
\* and every probe settles (healthCheck gives up after five seconds). A
\* client call may stay in flight for ever.
RouterFairness ==
    /\ WF_vars(checkAllHealth)
    /\ WF_vars(\E e \in Endpoints, result \in BOOLEAN : ProbeSettles(e, result))

\* One configuration: equal weights, one request at a time per endpoint.
InitRouterLive ==
    /\ InitRouter
    /\ weight = [e \in Endpoints |-> 1]
    /\ epMaxConcurrent = [e \in Endpoints |-> 1]

SpecRouterLive == InitRouterLive /\ [][NextRouter]_vars /\ RouterFairness

\* selectEndpoint called with every endpoint healthy and below its cap.
Select ==
    /\ Len(selections) < MaxSelections
    /\ SetRouterState(selectEndpoint(RouterState).st)
    /\ UNCHANGED <<weight, epMaxConcurrent, nReq, probe, managerVars, evalVars, auxVars,
                   turnVars, chatVars, gateVars>>

InitSelect ==
    /\ ManagerFresh /\ healthy = [e \in Endpoints |-> TRUE]
    /\ EvalIdle /\ TurnIdle /\ ChatIdle /\ GateIdle /\ AuxIdle
    /\ weight \in [Endpoints -> 1..MaxWeight]
    /\ epMaxConcurrent = [e \in Endpoints |-> MaxEpCap]
    /\ RouterFresh

NextSelect == Select

SpecSelect == InitSelect /\ [][NextSelect]_vars

\* C15: with endpoints A (the first, weight 3) and B (the second, weight 1)
\* the first four selections are A, A, A, B.
FirstFourAreAAAB ==
    (NumEndpoints = 2 /\ weight[1] = 3 /\ weight[NumEndpoints] = 1
        /\ Len(selections) >= 4)
    => SubSeq(selections, 1, 4) = <<1, 1, 1, 2>>

\* C16: in a full cycle, from one reset of the weight counters to the next,
\* every endpoint is selected as many times as its weight.
CycleCountsEqualWeights ==
    (\E e \in Endpoints : cycleCount[e] # 0)
    => \A e \in Endpoints : cycleCount[e] = weight[e]

InFlightAt(e) == {r \in Requests : calls[r].state = "inflight" /\ calls[r].ep = e}

InQueueOfRouter(r) == \E n \in 1..Len(queue) : queue[n] = r

\* Request r is handed to an endpoint in this step.
Dispatched(r) == calls[r].state # "inflight" /\ calls'[r].state = "inflight"

\* An endpoint is healthy and below its cap.
SomeEndpointFree ==
    \E e \in Endpoints : healthy[e] /\ currentRequests[e] < epMaxConcurrent[e]

\* The step settles a client call, or ends a health sweep.
DrainPoint ==
    \/ \E r \in Requests :
          calls[r].state = "inflight" /\ calls'[r].state \in {"ok", "failed"}
    \/ /\ \E e \in Endpoints : probe[e] = "pending"
       /\ \A e \in Endpoints : probe'[e] = "none"

InFlightWithinCap ==
    [][/\ \A e \in Endpoints :
              /\ currentRequests'[e] >= 0
              /\ currentRequests'[e] <= epMaxConcurrent[e]
              /\ currentRequests'[e] = Cardinality({r \in Requests :
                     calls'[r].state = "inflight" /\ calls'[r].ep = e})
       /\ \A r \in Requests :
              /\ Dispatched(r) => healthy'[calls'[r].ep]
              /\ calls'[r].state = "queued"
                     <=> \E n \in 1..Len(queue') : queue'[n] = r]_vars

\* Every endpoint is at its cap with a request waiting behind the calls in
\* flight, one of them a stream.
AtCapWithRequestWaiting ==
    /\ \A e \in Endpoints : healthy[e] /\ currentRequests[e] = epMaxConcurrent[e]
    /\ queue # <<>>
    /\ \E r \in Requests : calls[r].kind = "stream" /\ calls[r].state = "inflight"

\* C18: a complete() call is never handed to an endpoint while a call made
\* before it is still waiting in the queue.
QueueServedInArrivalOrder ==
    [][\A r \in Requests :
          (Dispatched(r) /\ calls'[r].kind = "complete")
              => \A w \in 1..(r - 1) : calls'[w].state # "queued"]_vars

\* C19: when a complete() call fails, its endpoint is unhealthy and its
\* currentRequests one less when the error is delivered; the call is never
\* sent again; and an unhealthy endpoint becomes healthy only by a probe and
\* is given no request before.
FailedCallMarksUnhealthy ==
    [][/\ \A r \in Requests :
              /\ (calls[r].kind = "complete" /\ calls[r].state = "inflight"
                     /\ calls'[r].state = "failed")
                 => /\ ~healthy'[calls[r].ep]
                    /\ currentRequests'[calls[r].ep] = currentRequests[calls[r].ep] - 1
              /\ calls[r].state = "failed" => calls'[r] = calls[r]
              /\ calls'[r].sent <= 1
              /\ Dispatched(r) => healthy'[calls'[r].ep]
       /\ \A e \in Endpoints :
              (~healthy[e] /\ healthy'[e]) => (probe[e] = "pending" /\ probe'[e] # "pending")
      ]_vars

\* A complete() call has failed, its endpoint is still unhealthy and below
\* its cap, and a later request waits in the queue.
FailedThenWaiting ==
    \E r \in Requests :
        /\ calls[r].kind = "complete" /\ calls[r].state = "failed"
        /\ ~healthy[calls[r].ep]
        /\ currentRequests[calls[r].ep] < epMaxConcurrent[calls[r].ep]
        /\ \E w \in Requests : w > r /\ calls[w].state = "queued"

\* C20: a stream() call made when no endpoint is healthy and below its cap
\* is rejected at once: the queue, currentRequests and weightCounter are as
\* they were.
StreamFailsFast ==
    [][\A r \in Requests :
          (calls[r].kind = "none" /\ calls'[r].kind = "stream"
              /\ Available(RouterState) = {})
          => /\ calls'[r].state = "rejected"
             /\ UNCHANGED <<queue, currentRequests, weightCounter>>]_vars

\* A stream() call was rejected while a complete() call made before it
\* waits in the queue.
StreamRejectedWhileOthersWait ==
    \E r \in Requests :
        /\ calls[r].kind = "stream" /\ calls[r].state = "rejected"
        /\ Available(RouterState) = {}
        /\ \E w \in 1..(r - 1) : calls[w].state = "queued"

\* ------------------------------------------- executeTool: approval gate
DESTRUCTIVE_TOOLS == {"delete_issue", "spawn_worker", "merge_issue", "git_commit"}

\* The tools of the gate model, and the issues their calls name.
GateTools == DESTRUCTIVE_TOOLS \cup {"reprioritize"}

ToolIssues(name) ==
    CASE name = "spawn_worker" -> Issues
      [] name = "merge_issue" -> MergeIssues
      [] name = "delete_issue" -> DeleteIssues
      [] name = "reprioritize" -> ReprioritizeIssues
      [] OTHER -> {0}

Cancelled == "Action cancelled by user."

buildToolDescription(name, i) ==
    CASE name = "delete_issue" -> <<"Delete issue #", i>>
      [] name = "spawn_worker" -> <<"Spawn worker for issue #", i>>
      [] name = "merge_issue" -> <<"Merge issue #", i, " to main">>
      [] name = "git_commit" -> <<"Git commit: ">>
      [] OTHER -> <<name, i>>

\* DESTRUCTIVE_TOOLS.has(name) && !yoloMode && this.confirmCallback
Gated(name) == name \in DESTRUCTIVE_TOOLS /\ ~yoloMode /\ confirmCallback

ProceedsAnyway(ans) == TRUE

\* if (!approved) return 'Action cancelled by user.'
Proceeds(ans) == ans = "yes"

\* Manager.onConfirm
onConfirm ==
    /\ ~confirmCallback
    /\ confirmCallback' = TRUE
    /\ UNCHANGED <<asked, answer, toolResult, lastRun, commits, schedVars,
                   evalVars, auxVars, turnVars, chatVars, routerVars>>

\* Manager.toggleYoloMode
toggleYoloMode ==
    /\ yoloMode' = ~yoloMode
    /\ UNCHANGED <<turnPc, iterations, lastToolSig, repeatCount, reply, runLen,
                   runSig, turnError, nTurns, schedVars, evalVars, auxVars, chatVars,
                   gateVars, routerVars>>

\* git_commit tool: on the main branch the files are added and committed;
\* any failure is caught and reported.
GitCommit(ok) ==
    /\ ToolCall
    /\ commits' = IF ok THEN commits + 1 ELSE commits
    /\ UNCHANGED <<issueStatus, issuePriority, wtExists, workers, workerEndpoints,
                   workerQueue, now, toolBusy, L, nLaunch, slots, evalVars, auxVars,
                   turnVars, chatVars, routerVars>>

\* The switch of executeTool: the handler of the tool runs.
RunHandler(name, i, approved) ==
    /\ CASE name = "spawn_worker" -> SpawnWorker(i) /\ UNCHANGED commits
         [] name = "merge_issue" -> (\E o \in MergeOutcomes : MergeIssue(i, o)) /\ UNCHANGED commits
         [] name = "delete_issue" -> DeleteIssue(i) /\ UNCHANGED commits
         [] name = "reprioritize" ->
                (\E p \in Priorities : Reprioritize(i, p)) /\ UNCHANGED commits
         [] name = "git_commit" -> \E ok \in BOOLEAN : GitCommit(ok)
    /\ lastRun' = [name |-> name, issue |-> i, approved |-> approved, yolo |-> yoloMode]
    /\ toolResult' = IF name = "spawn_worker" THEN spawnWorkerAnswer(i) ELSE "handler"
    /\ UNCHANGED confirmCallback

\* executeTool(name, input) up to its first await: a gated call builds the
\* description and awaits confirmCallback; any other goes to its handler.
ExecuteTool(name, i) ==
    /\ ~asked.pending /\ ~toolBusy /\ ~shutdownDone
    /\ nTools < MaxGateTools
    /\ IF Gated(name)
       THEN /\ asked' = [name |-> name, issue |-> i,
                         desc |-> buildToolDescription(name, i), pending |-> TRUE]
            /\ UNCHANGED <<confirmCallback, answer, toolResult, lastRun, commits,
                           schedVars, evalVars, auxVars, turnVars, chatVars, routerVars>>
       ELSE /\ RunHandler(name, i, FALSE)
            /\ UNCHANGED <<asked, answer>>

\* The promise of confirmCallback settles: with true ("yes") the handler
\* runs, with false ("no") executeTool returns the cancellation string, and
\* a rejection ("throws") leaves executeTool as it is.
ConfirmReturns(ans) ==
    /\ asked.pending
    /\ ans \in {"yes", "no", "throws"}
    /\ asked' = [asked EXCEPT !.pending = FALSE]
    /\ answer' = ans
    /\ IF ans # "throws" /\ Proceeds(ans)
       THEN RunHandler(asked.name, asked.issue, ans = "yes")
       ELSE /\ toolResult' = IF ans = "throws" THEN "raised" ELSE Cancelled
            /\ UNCHANGED <<confirmCallback, lastRun, commits, schedVars, evalVars, auxVars,
                           turnVars, chatVars, routerVars>>

InitGate ==
    SchedInit /\ EvalIdle /\ TurnIdle /\ ChatIdle /\ GateIdle /\ RouterIdle /\ AuxIdle

NextGate ==
    \/ onConfirm
    \/ toggleYoloMode
    \/ \E name \in GateTools : \E i \in ToolIssues(name) : ExecuteTool(name, i)
    \/ \E ans \in {"yes", "no", "throws"} : ConfirmReturns(ans)
    \/ \E k \in Launches : GitWorktreeAdd(k, TRUE)
    \/ \E k \in Launches : LaunchResume(k, "ok")
    \/ \E k \in Launches, code \in SchedCodes : ProcClose(k, <<>>, code)

SpecGate == InitGate /\ [][NextGate]_vars

\* C12: the handler of a destructive tool that ran while yolo mode was off
\* ran for a call that was put to the approval callback, with its
\* description, and approved.
DestructiveRunsOnlyApproved ==
    (lastRun.name \in DESTRUCTIVE_TOOLS /\ ~lastRun.yolo) => lastRun.approved

\* The state of the program a tool handler can change.
ToolFrame ==
    <<issueStatus, issuePriority, wtExists, workers, workerEndpoints, workerQueue,
      slots, L, nLaunch, now, commits, lastRun>>

\* C13: when confirmCallback resolves to false, executeTool returns
\* 'Action cancelled by user.' and the issue store, the workers map, the
\* worker queue, the worktrees, the launches, the slot reservations and the
\* repository are as they were.
DenialHasNoEffect ==
    [][(asked.pending /\ ~asked'.pending /\ answer' = "no")
         => (toolResult' = Cancelled /\ UNCHANGED ToolFrame)]_vars

\* A delete_issue call for an issue whose worker is running was denied.
DeniedDeleteOfRunningIssue ==
    /\ ~asked.pending /\ asked.name = "delete_issue" /\ answer = "no"
    /\ toolResult = Cancelled
    /\ issueStatus[asked.issue] = "in_progress"
    /\ wtExists[asked.issue]
    /\ workers[asked.issue] # 0

\* The step runs the handler of spawn_worker for issue i.
SpawnHandlerRuns(i) ==
    /\ nTools' = nTools + 1
    /\ lastRun'.name = "spawn_worker" /\ lastRun'.issue = i

\* C30: spawn_worker for an issue whose worker is running, or that is in
\* the queue, returns the string that says so (or, the issue file being
\* gone, that the issue was not found) and leaves the workers map, the
\* queue, the issue store, the worktrees, the launches and the slot
\* reservations as they were.
RejectedSpawnHasNoEffect ==
    [][\A i \in Issues :
         (/\ SpawnHandlerRuns(i)
          /\ \/ workers[i] # 0 /\ L[workers[i]].status = "running"
             \/ \E n \in 1..Len(workerQueue) : workerQueue[n].issueId = i)
         => /\ toolResult' \in {AlreadyRunning, AlreadyQueued, NotFound}
            /\ toolResult' = NotFound <=> issueStatus[i] = "none"
            /\ UNCHANGED <<issueStatus, issuePriority, wtExists, workers,
                           workerEndpoints, workerQueue, slots, L, nLaunch, now,
                           commits>>]_vars

\* spawn_worker was called for the one issue of the queue and rejected.
QueuedIssueSpawnedAgain ==
    /\ lastRun.name = "spawn_worker" /\ toolResult = AlreadyQueued
    /\ Len(workerQueue) = 1 /\ workerQueue[1].issueId = lastRun.issue
    /\ nTools = 3

\* ------------------------------------------------------- Manager.chat
\* A chat() call: Layout's handleSend ("user") or handleWorkerResult
\* ("worker").
Chat(from) ==
    /\ nChat < MaxChat
    /\ nChat' = nChat + 1
    /\ SetChatState(ChatCall(ChatState, nChat + 1, from))
    /\ UNCHANGED <<schedVars, evalVars, auxVars, turnVars, gateVars, routerVars>>

\* processChat of call m leaves its loop and returns.
Returned(st, m, end) == [st EXCEPT !.act = [@ EXCEPT ![m] = [pc |-> "returned", end |-> end]]]

\* router.complete settles in processChat of call m: it rejects ("llm_error":
\* the catch ends the loop), or the reply is pushed and then either has no
\* tool use ("text"), trips the repeat guard ("repeat"), or its first
\* executeTool call is awaited ("tools").
LlmReplies(m, r) ==
    /\ activeTurns[m].pc = "llm"
    /\ r \in {"llm_error", "text", "repeat", "tools"}
    /\ r # "llm_error" => Len(messages) < MaxMsgs
    /\ LET st == ChatState
           pushed == [st EXCEPT !.msgs = Append(@, Msg(m, IF r = "text" THEN "assistant"
                                                          ELSE "tool_use"))]
       IN  SetChatState(
               IF r = "llm_error" THEN Returned(st, m, r)
               ELSE IF r = "tools"
               THEN [pushed EXCEPT !.act = [@ EXCEPT ![m].pc = "tool"]]
               ELSE Returned(pushed, m, r))
    /\ UNCHANGED <<nChat, schedVars, evalVars, auxVars, turnVars, gateVars, routerVars>>

\* The executeTool calls of the batch of call m are over: one of them raised
\* ("tool_error": nothing in executeTool catches what removeWorktree,
\* unlinkSync, writeFileSync, tracker.create or the confirm callback throw, so
\* processChat's catch ends the loop before the tool-result message), or the
\* tool-result message is pushed and the loop goes on ("next"), ends because
\* a worker was spawned ("spawned") or because of the iteration cap ("cap").
ToolsReturn(m, r) ==
    /\ activeTurns[m].pc = "tool"
    /\ r \in {"tool_error", "next", "spawned", "cap"}
    /\ r # "tool_error" => Len(messages) < MaxMsgs
    /\ LET st == ChatState
           pushed == [st EXCEPT !.msgs = Append(@, Msg(m, "tool_result"))]
       IN  SetChatState(
               IF r = "tool_error" THEN Returned(st, m, r)
               ELSE IF r = "next"
               THEN [pushed EXCEPT !.act = [@ EXCEPT ![m].pc = "llm"]]
               ELSE Returned(pushed, m, r))
    /\ UNCHANGED <<nChat, schedVars, evalVars, auxVars, turnVars, gateVars, routerVars>>

\* chat(m)'s finally block: clear chatBusy, emit chat_done, and when a
\* message is queued shift it and call chat() for it.
ChatFinally(m) ==
    /\ activeTurns[m].pc = "returned"
    /\ LET st == [ChatState EXCEPT !.busy = FALSE,
                                   !.act = [@ EXCEPT ![m].pc = "done"]]
       IN  SetChatState(
               IF st.pend # <<>>
               THEN ChatCall([st EXCEPT !.pend = Tail(@)], Head(st.pend).id,
                             Head(st.pend).from)
               ELSE st)
    /\ UNCHANGED <<nChat, schedVars, evalVars, auxVars, turnVars, gateVars, routerVars>>

InitChat ==
    SchedInit /\ EvalIdle /\ TurnIdle /\ ChatIdle /\ GateIdle /\ RouterIdle /\ AuxIdle

NextChat ==
    \/ \E from \in {"user", "worker"} : Chat(from)
    \/ \E m \in ChatCalls, r \in {"llm_error", "text", "repeat", "tools"} : LlmReplies(m, r)
    \/ \E m \in ChatCalls, r \in {"tool_error", "next", "spawned", "cap"} : ToolsReturn(m, r)
    \/ \E m \in ChatCalls : ChatFinally(m)

SpecChat == InitChat /\ [][NextChat]_vars

InProgress(m) == activeTurns[m].pc \in {"llm", "tool", "returned"}

Queued(m) == \E n \in 1..Len(pendingMessages) : pendingMessages[n].id = m

\* C11: at most one turn is in progress; while one is, chatBusy is set and
\* every later chat() call is in pendingMessages, in arrival order, with no
\* message of its own in the conversation; a turn has messages only when all
\* earlier calls are done; the messages of the conversation are grouped by
\* turn, the turns in arrival order.
TurnsSerialized ==
    /\ \A m, n \in ChatCalls : (InProgress(m) /\ InProgress(n)) => m = n
    /\ (\E m \in ChatCalls : activeTurns[m].pc \in {"llm", "tool"}) => chatBusy
    /\ \A m \in 1..nChat : Queued(m) <=> activeTurns[m].pc = "none"
    /\ \A a, b \in 1..Len(pendingMessages) :
           a < b => pendingMessages[a].id < pendingMessages[b].id
    /\ \A p \in 1..Len(messages) :
           /\ ~Queued(messages[p].turn)
           /\ \A m \in 1..(messages[p].turn - 1) : activeTurns[m].pc = "done"
    /\ \A p, q \in 1..Len(messages) :
           p < q => messages[p].turn <= messages[q].turn

\* Two messages wait while the second turn, itself taken from the queue,
\* is in progress after the first turn's messages.
QueuedBehindRunningTurn ==
    /\ Len(pendingMessages) >= 2
    /\ activeTurns[1].pc = "done" /\ activeTurns[1].end = "spawned"
    /\ activeTurns[2].pc = "tool"
    /\ pendingMessages[1].from = "worker"

\* C14: a tool that fails does not interrupt the turn: in a turn that has
\* come to its end other than by the repeat guard, every reply that asked for
\* tools is followed by the tool-result message of its batch.
ToolFailureKeepsTurnGoing ==
    \A p \in 1..Len(messages) :
        LET m == messages[p].turn
        IN  (/\ messages[p].kind = "tool_use"
             /\ activeTurns[m].pc \in {"returned", "done"}
             /\ activeTurns[m].end # "repeat")
            => /\ p < Len(messages)
               /\ messages[p + 1] = Msg(m, "tool_result")
====
